---- MODULE Spec2Model ----
(***************************************************************************)
(* The Express application of src/index.js: the express.json() middleware, *)
(* the two static routes GET / and GET /health, and the POST /sort route   *)
(* (BodySchema.parse, then req.body.sort(), then res.json; res.sendStatus  *)
(* (400) in the catch).  A request goes through the phases                 *)
(*     idle -> received -> parsed -> responded -> idle.                    *)
(*                                                                         *)
(* JSON values are records [t, n, s, items]: t the JSON type, n the value  *)
(* of a number (or the digits of a numeric string), s the text of an       *)
(* object, items the elements of an array.  Array elements are records     *)
(* [t, n].  Numbers are integers.                                          *)
(***************************************************************************)
EXTENDS Integers, Sequences, FiniteSets

VARIABLES reqs, nodeEnv, expressMajor

vars == <<reqs, nodeEnv, expressMajor>>

----------------------------------------------------------------------------
(* Bounds *)

\* longest array a client sends
MaxLen == 3

\* requests in flight at once in SpecConcurrent
MaxInFlight == 2

----------------------------------------------------------------------------
(* JSON values *)

Elem(t, n) == [t |-> t, n |-> n]

Val(t, n, s, items) == [t |-> t, n |-> n, s |-> s, items |-> items]

\* req.body before any middleware has set it, and in Express 5 when no body was parsed
Undefined == Val("undefined", 0, "", <<>>)

\* the object {}
EmptyObject == Val("object", 0, "{}", <<>>)

ArrayOf(items) == Val("array", 0, "", items)

\* the numbers a client puts in an array: negative, one digit, two digits
NumVals == {-1, 2, 10}

NumElems == {Elem("number", n) : n \in NumVals}

\* the non-numeric elements: the numeric string "2", true, null, {} and []
OtherElems == {Elem("string", 2), Elem("boolean", 1), Elem("null", 0),
               Elem("object", 0), Elem("array", 0)}

Elems == NumElems \cup OtherElems

SeqsUpTo(S, k) == UNION {[1..m -> S] : m \in 0..k}

\* the top-level JSON values that are not arrays
NonArrayVals == {Val("object", 0, "{\"foo\":\"bar\"}", <<>>), Val("string", 0, "", <<>>),
                 Val("number", 10, "", <<>>), Val("boolean", 1, "", <<>>),
                 Val("null", 0, "", <<>>)}

----------------------------------------------------------------------------
(* What a client sends: no body, a body that is not declared JSON, a body  *)
(* declared JSON that does not parse, or a JSON text (val: its value).     *)

Raw(kind, val) == [kind |-> kind, val |-> val]

NoBody == Raw("absent", Undefined)

JsonRaw(v) == Raw("json", v)

OtherRaws == {NoBody, Raw("text", Undefined), Raw("malformed", Undefined)}

RawBodies == {JsonRaw(ArrayOf(items)) : items \in SeqsUpTo(Elems, MaxLen)}
               \cup {JsonRaw(v) : v \in NonArrayVals} \cup OtherRaws

\* the bodies of the requests that are in flight together in SpecConcurrent
ConcRaws == {JsonRaw(ArrayOf(<<Elem("number", 2), Elem("number", 10)>>)),
             JsonRaw(ArrayOf(<<Elem("number", 10), Elem("number", -1), Elem("number", 2)>>)),
             JsonRaw(ArrayOf(<<>>)),
             JsonRaw(ArrayOf(<<Elem("number", 2), Elem("string", 2)>>)),
             JsonRaw(Val("object", 0, "{\"foo\":\"bar\"}", <<>>)),
             NoBody, Raw("malformed", Undefined)}

----------------------------------------------------------------------------
(* Number::toString and its inverse in JSON.parse, as UTF-16 code units *)

RECURSIVE Digits(_)
Digits(n) == IF n < 10 THEN <<48 + n>> ELSE Append(Digits(n \div 10), 48 + (n % 10))

ToString(n) == IF n < 0 THEN <<45>> \o Digits(-n) ELSE Digits(n)

RECURSIVE ParseDigits(_)
ParseDigits(cu) ==
  IF cu = <<>> THEN 0
  ELSE 10 * ParseDigits(SubSeq(cu, 1, Len(cu) - 1)) + (cu[Len(cu)] - 48)

ParseNumber(cu) == IF cu[1] = 45 THEN -ParseDigits(Tail(cu)) ELSE ParseDigits(cu)

\* JSON.stringify of an array of numbers: the text of each element
JSONStringify(items) == [i \in DOMAIN items |-> ToString(items[i].n)]

\* JSON.parse of that text
JSONParseArray(wire) == ArrayOf([i \in DOMAIN wire |-> Elem("number", ParseNumber(wire[i]))])

----------------------------------------------------------------------------
(* Array.prototype.sort() with no comparator: elements compare as strings, *)
(* by code unit; the sort is stable.                                       *)

RECURSIVE StringLess(_, _)
StringLess(a, b) ==
  IF b = <<>> THEN FALSE
  ELSE IF a = <<>> THEN TRUE
  ELSE IF a[1] # b[1] THEN a[1] < b[1]
  ELSE StringLess(Tail(a), Tail(b))

\* ToString of an array element: a number, the string "2", true, null, {} or []
ElemToString(e) ==
  CASE e.t = "number" -> ToString(e.n)
    [] e.t = "string" -> ToString(e.n)
    [] e.t = "boolean" -> <<116, 114, 117, 101>>
    [] e.t = "null" -> <<110, 117, 108, 108>>
    [] e.t = "object" -> <<91, 111, 98, 106, 101, 99, 116, 32, 79, 98, 106, 101, 99, 116, 93>>
    [] OTHER -> <<>>

\* SortCompare(x, y) < 0
SortCompareLess(x, y) == StringLess(ElemToString(x), ElemToString(y))

\* x put into the sorted sequence s after every element that is not greater
RECURSIVE Insert(_, _)
Insert(x, s) ==
  IF s = <<>> THEN <<x>>
  ELSE IF SortCompareLess(x, s[1]) THEN <<x>> \o s
  ELSE <<s[1]>> \o Insert(x, Tail(s))

RECURSIVE SortFrom(_, _)
SortFrom(items, k) ==
  IF k = 0 THEN <<>> ELSE Insert(items[k], SortFrom(items, k - 1))

\* one pass of adjacent swaps: a sort that stops early
RECURSIVE OnePass(_)
OnePass(items) ==
  IF Len(items) < 2 THEN items
  ELSE IF SortCompareLess(items[2], items[1])
       THEN <<items[2]>> \o OnePass(<<items[1]>> \o SubSeq(items, 3, Len(items)))
       ELSE <<items[1]>> \o OnePass(Tail(items))

ArraySort(items) == SortFrom(items, Len(items))

----------------------------------------------------------------------------
(* Responses: the status, the Content-Type, the payload (text, or for a    *)
(* JSON array the text of each element in items).                          *)

Res(status, ctype, text, array, items) ==
  [status |-> status, ctype |-> ctype, text |-> text, array |-> array, items |-> items]

NoRes == Res(0, "", "", FALSE, <<>>)

\* res.json(obj) of an object whose JSON text is text
ResJsonObject(text) == Res(200, "application/json", text, FALSE, <<>>)

\* res.json(arr) of an array of numbers
ResJsonArray(items) == Res(200, "application/json", "", TRUE, JSONStringify(items))

\* res.sendStatus(400): the status text as a text/plain body
SendStatus400 == Res(400, "text/plain", "Bad Request", FALSE, <<>>)

\* the catch answering with the error as JSON
SendErrorJson == Res(400, "application/json", "{\"name\":\"ZodError\"}", FALSE, <<>>)

CatchResponse == SendStatus400

\* Express's default error handler for an error of status 400: an HTML page with
\* the status text in production and the error's stack otherwise
ErrorPage ==
  Res(400, "text/html",
      IF nodeEnv = "production" THEN "<pre>Bad Request</pre>"
      ELSE "<pre>SyntaxError: Unexpected token in JSON<br> at JSON.parse</pre>",
      FALSE, <<>>)

\* what supertest gives as response.body: the parsed JSON, or {} when the
\* response is not JSON
ResponseBody(res) ==
  IF res.ctype = "application/json"
  THEN IF res.array THEN JSONParseArray(res.items) ELSE Val("object", 0, res.text, <<>>)
  ELSE EmptyObject

----------------------------------------------------------------------------
(* BodySchema = z.array(z.number()): TRUE when parse returns, FALSE when   *)
(* it throws a ZodError.                                                   *)

BodySchemaParse(v) ==
  /\ v.t = "array"
  /\ \A i \in DOMAIN v.items : v.items[i].t = "number"

----------------------------------------------------------------------------
(* The routes *)

RootResponse == ResJsonObject("{\"message\":\"Hello, World!\"}")

\* a health route that reports the requests it sees failing
HealthResponseDegraded ==
  IF \E q \in DOMAIN reqs : reqs[q].res.status = 400
  THEN ResJsonObject("{\"status\":\"degraded\"}")
  ELSE ResJsonObject("{\"status\":\"ok\"}")

HealthResponse == ResJsonObject("{\"status\":\"ok\"}")

\* req.body.sort() run before BodySchema.parse
SortRouteSortFirst(body) ==
  LET sorted == IF body.t = "array" THEN [body EXCEPT !.items = ArraySort(body.items)] ELSE body
  IN  IF BodySchemaParse(body)
      THEN [body |-> sorted, res |-> ResJsonArray(sorted.items)]
      ELSE [body |-> sorted, res |-> CatchResponse]

\* an empty array taken for a missing body
SortRouteRejectEmpty(body) ==
  IF BodySchemaParse(body) /\ body.items # <<>>
  THEN [body |-> [body EXCEPT !.items = ArraySort(body.items)],
        res |-> ResJsonArray(ArraySort(body.items))]
  ELSE [body |-> body, res |-> CatchResponse]

\* the POST /sort handler on req.body: req.body after it, and the response.
\* req.body.sort() sorts req.body in place and returns it.
SortRoute(body) ==
  IF BodySchemaParse(body)
  THEN LET sorted == [body EXCEPT !.items = ArraySort(body.items)]
       IN  [body |-> sorted, res |-> ResJsonArray(sorted.items)]
  ELSE [body |-> body, res |-> CatchResponse]

----------------------------------------------------------------------------
(* The requests.  reqs[r] is the request in slot r: its route, what the    *)
(* client sent (raw), req.body, the response (res), who sent the response  *)
(* (by), and, when the client sent back the body of a 200 response of      *)
(* POST /sort, that response's array (resent, prev).                       *)

Slots == 1..MaxInFlight

Routes == {"GET /", "GET /health", "POST /sort"}

Idle ==
  [phase |-> "idle", route |-> "", raw |-> NoBody, body |-> Undefined,
   res |-> NoRes, by |-> "", resent |-> FALSE, prev |-> <<>>]

Init ==
  /\ reqs = [r \in Slots |-> Idle]
  /\ nodeEnv \in {"production", "development"}
  /\ expressMajor \in {4, 5}

\* a request arrives; a GET carries no body
Receive(r, route, raw) ==
  /\ reqs[r].phase = "idle"
  /\ route # "POST /sort" => raw = NoBody
  /\ reqs' = [reqs EXCEPT ![r] = [Idle EXCEPT !.phase = "received", !.route = route, !.raw = raw]]
  /\ UNCHANGED <<nodeEnv, expressMajor>>

\* the client posts the body of the 200 response it got from POST /sort
Resubmit(r) ==
  /\ reqs[r].phase = "responded"
  /\ reqs[r].route = "POST /sort"
  /\ reqs[r].res.status = 200
  /\ ~reqs[r].resent
  /\ reqs' = [reqs EXCEPT ![r] =
                 [Idle EXCEPT !.phase = "received", !.route = "POST /sort",
                              !.raw = JsonRaw(ResponseBody(reqs[r].res)),
                              !.resent = TRUE, !.prev = reqs[r].res.items]]
  /\ UNCHANGED <<nodeEnv, expressMajor>>

\* a missing body left as an empty array
DefaultBodyArray == ArrayOf(<<>>)

\* req.body when express.json() parses nothing: {} in Express 4, undefined in Express 5
DefaultBody == IF expressMajor = 4 THEN EmptyObject ELSE Undefined

\* express.json() parses only a body declared as JSON
JsonDeclared(raw) == raw.kind \in {"json", "malformed"}

\* express.json() in its default strict mode: JSON.parse must succeed and give
\* an array or an object
JsonAccepted(raw) == raw.kind = "json" /\ raw.val.t \in {"array", "object"}

\* express.json(): sets req.body and calls next(), or fails with a 400 error that
\* no route sees and Express's default error handler answers
JsonMiddleware(r) ==
  /\ reqs[r].phase = "received"
  /\ reqs' = [reqs EXCEPT ![r] =
       IF ~JsonDeclared(reqs[r].raw)
       THEN [@ EXCEPT !.phase = "parsed", !.body = DefaultBody]
       ELSE IF JsonAccepted(reqs[r].raw)
       THEN [@ EXCEPT !.phase = "parsed", !.body = reqs[r].raw.val]
       ELSE [@ EXCEPT !.phase = "responded", !.body = DefaultBody,
                      !.res = ErrorPage, !.by = "errorHandler"]]
  /\ UNCHANGED <<nodeEnv, expressMajor>>

\* a handler that reads the body parsed last, kept in a variable of the module
HandlerInputShared(r) ==
  LET last == CHOOSE q \in Slots :
                /\ reqs[q].phase = "parsed" /\ reqs[q].route = "POST /sort"
                /\ \A p \in Slots :
                     reqs[p].phase = "parsed" /\ reqs[p].route = "POST /sort" => p <= q
  IN  reqs[last].body

\* the req the handler is called with
HandlerInput(r) == reqs[r].body

RootHandler(r) ==
  /\ reqs[r].phase = "parsed"
  /\ reqs[r].route = "GET /"
  /\ reqs' = [reqs EXCEPT ![r] = [@ EXCEPT !.phase = "responded", !.res = RootResponse,
                                            !.by = "route"]]
  /\ UNCHANGED <<nodeEnv, expressMajor>>

HealthHandler(r) ==
  /\ reqs[r].phase = "parsed"
  /\ reqs[r].route = "GET /health"
  /\ reqs' = [reqs EXCEPT ![r] = [@ EXCEPT !.phase = "responded", !.res = HealthResponse,
                                            !.by = "route"]]
  /\ UNCHANGED <<nodeEnv, expressMajor>>

SortHandler(r) ==
  /\ reqs[r].phase = "parsed"
  /\ reqs[r].route = "POST /sort"
  /\ LET out == SortRoute(HandlerInput(r))
     IN  reqs' = [reqs EXCEPT ![r] = [@ EXCEPT !.phase = "responded", !.body = out.body,
                                               !.res = out.res, !.by = "route"]]
  /\ UNCHANGED <<nodeEnv, expressMajor>>

\* the client has the response; the request is over
Complete(r) ==
  /\ reqs[r].phase = "responded"
  /\ reqs' = [reqs EXCEPT ![r] = Idle]
  /\ UNCHANGED <<nodeEnv, expressMajor>>

\* one request at a time, any body
Next ==
  \/ \E route \in Routes, raw \in RawBodies : Receive(1, route, raw)
  \/ Resubmit(1)
  \/ JsonMiddleware(1)
  \/ RootHandler(1)
  \/ HealthHandler(1)
  \/ SortHandler(1)
  \/ Complete(1)

Spec == Init /\ [][Next]_vars

\* several requests in flight, their steps interleaved in any order
NextConcurrent ==
  \E r \in Slots :
    \/ \E route \in Routes, raw \in ConcRaws : Receive(r, route, raw)
    \/ Resubmit(r)
    \/ JsonMiddleware(r)
    \/ RootHandler(r)
    \/ HealthHandler(r)
    \/ SortHandler(r)
    \/ Complete(r)

SpecConcurrent == Init /\ [][NextConcurrent]_vars

----------------------------------------------------------------------------
(* The properties *)

Responded(r) == reqs[r].phase = "responded"

SortResponded(r) == Responded(r) /\ reqs[r].route = "POST /sort"

\* what the client sent is JSON of the given top-level types
SentJson(r, types) == reqs[r].raw.kind = "json" /\ reqs[r].raw.val.t \in types

SentItems(r) == reqs[r].raw.val.items

\* what the client sent is a JSON array of numbers
SentNumbers(r) ==
  /\ SentJson(r, {"array"})
  /\ \A i \in DOMAIN SentItems(r) : SentItems(r)[i].t = "number"

\* what the client sent is a JSON array with an element that is not a number
SentBadElement(r) ==
  /\ SentJson(r, {"array"})
  /\ \E i \in DOMAIN SentItems(r) : SentItems(r)[i].t # "number"

Count(s, e) == Cardinality({i \in DOMAIN s : s[i] = e})

IsPermutation(s, t) ==
  /\ Len(s) = Len(t)
  /\ \A i \in DOMAIN t : Count(s, t[i]) = Count(t, t[i])

Ascending(s) == \A i \in 1..(Len(s) - 1) : s[i].n <= s[i + 1].n

\* the response carries nothing at all
EmptyPayload(res) == res.text = "" /\ ~res.array /\ res.items = <<>>

\* the response is the plain text "Bad Request" that res.sendStatus(400) sends
BadRequestText(res) ==
  /\ res.status = 400
  /\ res.ctype = "text/plain"
  /\ res.text = "Bad Request"
  /\ ~res.array /\ res.items = <<>>

\* the response is not JSON: a client that reads JSON gets {} as its body
NoJsonPayload(res) ==
  /\ res.ctype # "application/json"
  /\ ~res.array /\ res.items = <<>>
  /\ ResponseBody(res) = EmptyObject

\* C1: for every body that is an array of numbers, POST /sort answers 200 with
\* the input sorted ascending by numeric value: a permutation of the input in
\* which every element is <= its successor.
C1_SortedNumerically ==
  \A r \in Slots :
    SortResponded(r) /\ SentNumbers(r) =>
      /\ reqs[r].res.status = 200
      /\ reqs[r].res.array
      /\ IsPermutation(ResponseBody(reqs[r].res).items, SentItems(r))
      /\ Ascending(ResponseBody(reqs[r].res).items)

\* C2: the handler does not mutate its input: after it has responded to an
\* array of numbers, req.body is element for element what it was before.
C2_InputNotMutated ==
  \A r \in Slots :
    SortResponded(r) /\ SentNumbers(r) => reqs[r].body = reqs[r].raw.val

C4_BadElementEmptyBody ==
  \A r \in Slots :
    SortResponded(r) /\ SentBadElement(r) =>
      reqs[r].res.status = 400 /\ EmptyPayload(reqs[r].res)

\* C4 amended: an array with a non-numeric element at any position gets 400
\* from the route with the plain text "Bad Request" and no JSON payload; the
\* whole input is rejected and nothing is sorted, req.body included.
C4_BadElementRejected ==
  \A r \in Slots :
    SortResponded(r) /\ SentBadElement(r) =>
      /\ reqs[r].by = "route"
      /\ BadRequestText(reqs[r].res)
      /\ NoJsonPayload(reqs[r].res)
      /\ reqs[r].body = reqs[r].raw.val

\* a rejected array whose numbers are out of order around a string in the middle
C4_Witness ==
  \E r \in Slots :
    /\ SortResponded(r) /\ SentJson(r, {"array"}) /\ Len(SentItems(r)) = 3
    /\ SentItems(r)[1] = Elem("number", 2)
    /\ SentItems(r)[2] = Elem("string", 2)
    /\ SentItems(r)[3] = Elem("number", -1)
    /\ reqs[r].res.status = 400

\* C5 as stated: a POST /sort with no body gets 400 and an empty body.
C5_MissingBodyEmptyBody ==
  \A r \in Slots :
    SortResponded(r) /\ reqs[r].raw.kind = "absent" =>
      reqs[r].res.status = 400 /\ EmptyPayload(reqs[r].res)

\* C5 amended: a POST /sort with no body gets 400 from the route with the
\* plain text "Bad Request", which a JSON client reads as the body {}.
C5_MissingBodyRejected ==
  \A r \in Slots :
    SortResponded(r) /\ reqs[r].raw.kind = "absent" =>
      /\ reqs[r].by = "route"
      /\ BadRequestText(reqs[r].res)
      /\ ResponseBody(reqs[r].res) = EmptyObject

C5_Witness ==
  \E r \in Slots :
    SortResponded(r) /\ reqs[r].raw.kind = "absent" /\ reqs[r].res.status = 400

\* C6: POST /sort with body [] answers 200 with body [].
C6_EmptyArrayAccepted ==
  \A r \in Slots :
    SortResponded(r) /\ SentJson(r, {"array"}) /\ SentItems(r) = <<>> =>
      /\ reqs[r].res.status = 200
      /\ reqs[r].res.ctype = "application/json"
      /\ reqs[r].res.array
      /\ ResponseBody(reqs[r].res) = ArrayOf(<<>>)

C6_Witness ==
  \E r \in Slots :
    /\ SortResponded(r) /\ SentJson(r, {"array"}) /\ SentItems(r) = <<>>
    /\ reqs[r].by = "route" /\ ~reqs[r].resent

\* C7: posting the body of a 200 response of POST /sort again answers 200 with
\* the same sequence, equal by value and in the same order.
C7_SortIdempotent ==
  \A r \in Slots :
    SortResponded(r) /\ reqs[r].resent =>
      /\ reqs[r].res.status = 200
      /\ reqs[r].res.array
      /\ ResponseBody(reqs[r].res) = JSONParseArray(reqs[r].prev)

\* the second response to an array of three different numbers
C7_Witness ==
  \E r \in Slots :
    /\ SortResponded(r) /\ reqs[r].resent
    /\ Len(reqs[r].prev) = 3
    /\ Cardinality({reqs[r].prev[i] : i \in 1..3}) = 3

C9_TwoTerminalOutcomes ==
  \A r \in Slots :
    SortResponded(r) =>
      /\ \/ reqs[r].res.status = 200 /\ reqs[r].res.array /\ SentNumbers(r)
         \/ reqs[r].res.status = 400 /\ EmptyPayload(reqs[r].res)
      /\ ~SentNumbers(r) => reqs[r].res.status = 400 /\ EmptyPayload(reqs[r].res)

\* what a request gets when it is the only one: the body express.json() sets,
\* then its route
AloneOutcome(route, raw) ==
  LET handle(body) ==
        CASE route = "POST /sort" -> SortRoute(body)
          [] route = "GET /" -> [body |-> body, res |-> RootResponse]
          [] OTHER -> [body |-> body, res |-> HealthResponse]
  IN  IF ~JsonDeclared(raw) THEN handle(DefaultBody)
      ELSE IF JsonAccepted(raw) THEN handle(raw.val)
      ELSE [body |-> DefaultBody, res |-> ErrorPage]

AloneParsed(raw) ==
  IF JsonAccepted(raw) THEN raw.val ELSE DefaultBody

\* C10: with requests in flight together and their steps interleaved in any
\* order, each request's req.body and response are what that request gets
\* when handled alone: nothing of another request is read or written.
C10_RequestsIndependent ==
  \A r \in Slots :
    /\ reqs[r].phase \in {"idle", "received"} =>
         reqs[r].body = Undefined /\ reqs[r].res = NoRes
    /\ reqs[r].phase = "parsed" =>
         reqs[r].body = AloneParsed(reqs[r].raw) /\ reqs[r].res = NoRes
    /\ Responded(r) =>
         /\ reqs[r].res = AloneOutcome(reqs[r].route, reqs[r].raw).res
         /\ reqs[r].body = AloneOutcome(reqs[r].route, reqs[r].raw).body

\* two POST /sort with different bodies answered together, one sorted in place
C10_Witness ==
  \E r, q \in Slots :
    /\ r # q /\ SortResponded(r) /\ SortResponded(q)
    /\ reqs[r].raw # reqs[q].raw
    /\ reqs[r].res.status = 200 /\ reqs[r].body # reqs[r].raw.val
    /\ reqs[q].res.status = 400

====
